---- MODULE Spec2Model ----
(***************************************************************************)
(* SSFD: seven-segment four-digit display driver (SevenSegment class).     *)
(*                                                                         *)
(* The model has two contexts: the application thread, which executes the  *)
(* public operations of SevenSegment step by step (pc, frame), and the     *)
(* Timer1 compare-match interrupt (Tick), which runs multiplex() whenever  *)
(* the global interrupt flag and the OCIE1A mask bit allow it.             *)
(*                                                                         *)
(* Pins are modelled as lines: segment line 0..7 and digit line 0..3 (the  *)
(* pin arrays hold 12 distinct pin numbers in every valid configuration    *)
(* the model draws).                                                       *)
(***************************************************************************)
EXTENDS Integers, Sequences, FiniteSets, TLC

\* ------------------------------------------------------------------------
\* Program constants (SSFD.h)
\* ------------------------------------------------------------------------
MaxElapsed == 1
MaxTextLen == 256
MaxNumber == 10000
MaxFineMilli == 12000
MaxCoarse == 2100

NUM_DIGITS == 4
NUM_SEGMENTS == 8
MAX_PIN == 53
MAX_VALUE == 9999

OK == "OK"
NULL_POINTER == "NULL_POINTER"
INVALID_PIN == "INVALID_PIN"
INVALID_ARGUMENT == "INVALID_ARGUMENT"
NOT_INITIALIZED == "NOT_INITIALIZED"

LOW == 0
HIGH == 1
\* level of a line that was never configured as OUTPUT nor written
PIN_UNSET == 2

\* a null pointer argument or member (const uint8_t*, const char*).  A pin
\* array is a tuple of pin numbers; a C string is the tuple of its character
\* codes followed by the terminating 0, so the empty string is <<0>>.
NULLPTR == <<>>

Slots == 0 .. (NUM_DIGITS - 1)
SegLines == 0 .. (NUM_SEGMENTS - 1)

\* ------------------------------------------------------------------------
\* Segment pattern table; bit 7=a, 6=b, 5=c, 4=d, 3=e, 2=f, 1=g, 0=dp
\* ------------------------------------------------------------------------
SEGMENT_PATTERNS ==
    << 252, 96, 218, 242, 102, 182, 190, 224, 254, 246,
       0, 1,
       238, 62, 156, 122, 158, 142, 188, 110, 96, 120, 14, 28, 168,
       42, 252, 206, 246, 10, 182, 30, 124, 112, 84, 78, 118, 218,
       0, 2, 192 >>

\* pgm_read_byte(&SEGMENT_PATTERNS[index]); an index outside the table reads
\* a byte of flash that is not part of it (any value)
ReadPattern(index) ==
    IF index >= 0 /\ index < Len(SEGMENT_PATTERNS)
    THEN SEGMENT_PATTERNS[index + 1]
    ELSE 255

BitAt(p, k) == (p \div (2 ^ k)) % 2

\* a | b on 8-bit values
BitOr(a, b) ==
    LET bit(k) == IF BitAt(a, k) = 1 \/ BitAt(b, k) = 1 THEN 2 ^ k ELSE 0
    IN  bit(0) + bit(1) + bit(2) + bit(3) + bit(4) + bit(5) + bit(6) + bit(7)

\* faulty variant of getPattern(): lower-case letters are not mapped
getPatternCaseSensitive(c) ==
    LET index ==
            IF c >= 48 /\ c <= 57 THEN c - 48
            ELSE IF c >= 65 /\ c <= 90 THEN 12 + (c - 65)
            ELSE IF c = 32 THEN 38
            ELSE IF c = 45 THEN 39
            ELSE IF c = 61 THEN 40
            ELSE IF c = 46 THEN 11
            ELSE 10
    IN  ReadPattern(index)

\* getPattern(char c): c is the character's code
getPattern(c) ==
    LET index0 ==
            IF c >= 48 /\ c <= 57 THEN c - 48
            ELSE IF c >= 65 /\ c <= 90 THEN 12 + (c - 65)
            ELSE IF c >= 97 /\ c <= 122 THEN 12 + (c - 97)
            ELSE IF c = 32 THEN 38
            ELSE IF c = 45 THEN 39
            ELSE IF c = 61 THEN 40
            ELSE IF c = 46 THEN 11
            ELSE 10
        index == IF index0 >= Len(SEGMENT_PATTERNS) THEN 10 ELSE index0
    IN  ReadPattern(index)

\* ------------------------------------------------------------------------
\* unsigned long (32 bit) as two 16-bit limbs <<hi, lo>>
\* ------------------------------------------------------------------------
W16 == 65536

U32(hi, lo) == <<hi, lo>>

Add32(a, b) ==
    LET lo == a[2] + b[2]
        carry == IF lo >= W16 THEN 1 ELSE 0
    IN  << (a[1] + b[1] + carry) % W16, lo % W16 >>

\* a - b modulo 2^32
Sub32(a, b) ==
    LET lo == a[2] - b[2]
        borrow == IF lo < 0 THEN 1 ELSE 0
    IN  << (a[1] - b[1] - borrow + W16) % W16, (lo + W16) % W16 >>

Geq32(a, b) == a[1] > b[1] \/ (a[1] = b[1] /\ a[2] >= b[2])

\* ------------------------------------------------------------------------
\* float arguments.  A finite float is modelled by the decimal value it
\* denotes, in thousandths: [kind |-> "finite", m |-> value * 1000].  round()
\* and roundf() round half away from zero.
\* ------------------------------------------------------------------------
FLOAT_UNIT == 1000

Finite(m) == [kind |-> "finite", m |-> m]
NaN == [kind |-> "nan", m |-> 0]
PosInf == [kind |-> "inf", m |-> 1]
NegInf == [kind |-> "inf", m |-> -1]

\* faulty variant of isinf(): only +Inf is recognised
isinf_positive(v) == v.kind = "inf" /\ v.m > 0

isnan(v) == v.kind = "nan"
isinf(v) == v.kind = "inf"

Abs(x) == IF x < 0 THEN -x ELSE x

\* round(num / den) for num >= 0, den > 0, half away from zero
RoundDiv(num, den) == (2 * num + den) \div (2 * den)

Pow10(n) == 10 ^ n

\* round(|value| * 10^decimals) for a value of m thousandths, decimals in 0..3
RoundScaled(m, decimals) == RoundDiv(Abs(m), Pow10(3 - decimals))

\* (uint16_t)x for a rounded float x >= 0.  A value that does not fit is
\* undefined behaviour: the conversion may wrap modulo 2^16 or saturate.
CastU16(x) ==
    IF x >= 0 /\ x < W16 THEN {x} ELSE {x % W16, W16 - 1, 0}

\* (int)x with the 16-bit int of the ATmega328P, for x >= 0.  A value that
\* does not fit is undefined behaviour: it may wrap to a negative int or
\* saturate.
CastInt16(x) ==
    IF x < 32768 THEN {x} ELSE {((x + 32768) % W16) - 32768, 32767}

\* ------------------------------------------------------------------------
\* setNumber(): the four patterns it writes
\* ------------------------------------------------------------------------
\* faulty variant of the extraction loop: the least significant digit is
\* stored first
DigitsLeastFirst(value) ==
    << value % 10, (value \div 10) % 10, (value \div 100) % 10,
       (value \div 1000) % 10 >>

\* digits[0..3] of setNumber's extraction loop (1-based tuple, leftmost
\* first): digits[i] = temp % 10; temp /= 10, for i = 3 down to 0
Digits(value) ==
    LET t3 == value
        t2 == t3 \div 10
        t1 == t2 \div 10
        t0 == t1 \div 10
    IN  << t0 % 10, t1 % 10, t2 % 10, t3 % 10 >>

\* faulty variant of the clamp: the value is reduced modulo 10000
ClampValueWrap(value) == value % (MAX_VALUE + 1)

ClampValue(value) == IF value > MAX_VALUE THEN MAX_VALUE ELSE value

ClampDp(dpPosition) ==
    IF dpPosition < -1 \/ dpPosition > 3 THEN -1 ELSE dpPosition

\* the build loop of setNumber from slot i on, isLeading as the loop holds it
RECURSIVE BuildPatterns(_, _, _, _, _)
BuildPatterns(digits, dpPosition, lz, i, isLeading) ==
    IF i >= NUM_DIGITS THEN <<>>
    ELSE
        LET digit == digits[i + 1]
            suppress == ~lz /\ digit = 0 /\ isLeading /\ i < NUM_DIGITS - 1
            base == IF suppress THEN ReadPattern(10) ELSE ReadPattern(digit)
            stillLeading ==
                IF suppress THEN isLeading
                ELSE IF digit # 0 \/ ~isLeading \/ i = NUM_DIGITS - 1 THEN FALSE
                ELSE isLeading
            pattern ==
                IF i = dpPosition /\ dpPosition >= 0
                THEN BitOr(base, ReadPattern(11))
                ELSE base
        IN  <<pattern>> \o BuildPatterns(digits, dpPosition, lz, i + 1, stillLeading)

\* the patterns setNumber(value, dpPosition) stores in slots 0..3 (1-based)
NumberPatterns(value, dpPosition, lz) ==
    BuildPatterns(Digits(ClampValue(value)), ClampDp(dpPosition), lz, 0, TRUE)

\* setHundredths(hundredths, dpPosition): the arguments it passes to setNumber
HundredthsArgs(hundredths, dpPosition) ==
    << IF hundredths > 9999 THEN 9999 ELSE hundredths,
       IF dpPosition < -1 \/ dpPosition > 3 THEN 2 ELSE dpPosition >>

\* ------------------------------------------------------------------------
\* setText(): strlen into a uint8_t, padding, lookup
\* ------------------------------------------------------------------------
\* strlen(text): the number of characters before the first 0
strlen(text) ==
    CHOOSE n \in 0 .. (Len(text) - 1) :
        /\ text[n + 1] = 0
        /\ \A i \in 1 .. n : text[i] # 0

\* uint8_t len = strlen(text)
TextLen8(text) == strlen(text) % 256

\* faulty variant of the padding: the text is right-aligned
PaddedCharRight(text, len, i) ==
    IF i >= NUM_DIGITS - len THEN text[i - (NUM_DIGITS - len) + 1] ELSE 32

\* padded[i] after strncpy(padded, text, len), i in 0..3
PaddedChar(text, len, i) == IF i < len THEN text[i + 1] ELSE 32

TextPatterns(text) ==
    LET len == TextLen8(text)
    IN  [i \in 1 .. NUM_DIGITS |-> getPattern(PaddedChar(text, len, i - 1))]

TXT_Err == <<69, 114, 114, 32, 0>>
TXT_Minus999 == <<45, 57, 57, 57, 0>>
CH_MINUS == 45

\* the writes of one critical section: <<slot, pattern>> in program order
AllSlots(pats) == [i \in 1 .. NUM_DIGITS |-> <<i - 1, pats[i]>>]

\* ------------------------------------------------------------------------
\* State
\* ------------------------------------------------------------------------
VARIABLES
    segmentPins,      \* _segmentPins: 8 pin numbers, or NULLPTR
    digitPins,        \* _digitPins: 4 pin numbers, or NULLPTR
    isrActive,        \* _isrActive
    displayPatterns,  \* _displayPatterns[4], slot 0 leftmost
    leadingZeros,     \* _leadingZeros (true: zeros are shown)
    currentDigit,     \* _currentDigit, the scan cursor
    blinkEnabled,     \* _blinkEnabled
    blinkStateOn,     \* _blinkStateOn
    blinkInterval,    \* _blinkInterval (32 bit)
    blinkLastToggle,  \* _blinkLastToggle (32 bit)
    lastError,        \* _lastError
    iflag,            \* SREG I bit: cli() clears it, sei() sets it
    ocie,             \* TIMSK1 bit OCIE1A: Timer1 compare interrupt armed
    segLevel,         \* level of segment line 0..7
    digLevel,         \* level of digit line 0..3
    now,              \* millis() (32 bit)
    pc,               \* where the application thread stands
    frame,            \* locals of the running operation
    call,             \* the running or last public call: op, arg, ret, and
                      \* prev, the call before it where that is recorded
    writer,           \* writer[i]: slot i was written by the call in `call`
    elapsed,          \* number of clock advances so far
    driven,           \* where recorded: driven[i + 1] is what the last tick
                      \* on slot i drove onto the segment lines
    scan              \* where recorded: the latest ticks taken in a row
                      \* with the blink phase on, at most four

vars ==
    << segmentPins, digitPins, isrActive, displayPatterns, leadingZeros,
       currentDigit, blinkEnabled, blinkStateOn, blinkInterval,
       blinkLastToggle, lastError, iflag, ocie, segLevel, digLevel, now,
       pc, frame, call, writer, elapsed, driven, scan >>

\* groups used in UNCHANGED
pinVars == << segmentPins, digitPins >>
blinkVars == << blinkEnabled, blinkStateOn, blinkInterval, blinkLastToggle >>
lineVars == << segLevel, digLevel >>
clockVars == << now, elapsed >>

NoFrame == [queue |-> <<>>, cont |-> "idle", ret |-> "void", setErr |-> FALSE,
            i |-> 0, start |-> U32(0, 0), ms |-> 0]

BlankSlots == [i \in Slots |-> 0]
Unwritten == [i \in Slots |-> FALSE]

\* call.prev where the call before is not recorded
HistoryOff ==
    [op |-> "off", arg |-> <<>>, ret |-> "void", patterns |-> BlankSlots,
     iflag |-> TRUE]

\* call.prev where it is recorded, before the first call
HistoryOn ==
    [op |-> "none", arg |-> <<>>, ret |-> "void", patterns |-> BlankSlots,
     iflag |-> TRUE]

\* call.prev for a call entered now: the call that returned last and the
\* patterns it left
Snapshot ==
    IF call.prev.op = "off" THEN HistoryOff
    ELSE [op |-> call.op, arg |-> call.arg, ret |-> call.ret,
          patterns |-> displayPatterns, iflag |-> iflag]

\* the members as the constructor leaves them, for given pin arrays
ConstructedMembers(segs, digs) ==
    /\ segmentPins = segs
    /\ digitPins = digs
    /\ isrActive = FALSE
    /\ displayPatterns = BlankSlots
    /\ leadingZeros = TRUE
    /\ currentDigit = 0
    /\ blinkEnabled = FALSE
    /\ blinkStateOn = TRUE
    /\ blinkInterval = U32(0, 500)
    /\ blinkLastToggle = U32(0, 0)
    /\ lastError = OK
    /\ iflag = TRUE
    /\ ocie = FALSE
    /\ segLevel = [s \in SegLines |-> PIN_UNSET]
    /\ digLevel = [d \in Slots |-> PIN_UNSET]
    /\ now = U32(0, 0)
    /\ pc = "idle"
    /\ frame = NoFrame
    /\ writer = Unwritten
    /\ elapsed = 0

\* driven where the ticks are not recorded
DrivenOff == <<>>

\* driven[i + 1] where the last tick on slot i drove no pattern
NOT_DRIVEN == 256

\* driven where the ticks are recorded, before the first tick
DrivenOn == [i \in 1 .. NUM_DIGITS |-> NOT_DRIVEN]

\* scan where the ticks are not recorded
ScanOff == << <<>> >>

\* scan where the ticks are recorded, before the first tick
ScanOn == <<>>

\* scan after a tick that moved the cursor to next: a dark tick ends the
\* row; a lit tick adds the slot it selected and the DisplayState it read
\* from, and the row keeps its latest four ticks
ScanAfter(next, dark) ==
    IF scan = ScanOff THEN scan
    ELSE IF dark THEN <<>>
    ELSE LET row == Append(scan, <<next, displayPatterns>>)
         IN  IF Len(row) > NUM_DIGITS THEN Tail(row) ELSE row

\* the state the constructor leaves, for given pin arrays
Constructed(segs, digs) ==
    /\ ConstructedMembers(segs, digs)
    /\ call = [op |-> "none", arg |-> <<>>, ret |-> "void", prev |-> HistoryOff]
    /\ driven = DrivenOff
    /\ scan = ScanOff

\* ------------------------------------------------------------------------
\* Interrupt masking
\* ------------------------------------------------------------------------
\* faulty variant of cli(): the I bit is left as it is
cli_unmasked == iflag

\* the I bit after cli()
cli == FALSE

\* the I bit after sei()
sei == TRUE

\* the Timer1 compare interrupt can be taken and would run multiplex()
TickEnabled == iflag /\ ocie /\ isrActive

\* a public operation can be called: the application thread runs no other
Idle == pc = "idle"

\* entry of a public call that takes several steps: remember it; no slot is
\* written by it yet
Begun(op, arg) ==
    /\ call' = [op |-> op, arg |-> arg, ret |-> "running", prev |-> Snapshot]
    /\ writer' = Unwritten

\* a public call that returns r in the step that enters it
Done(op, arg, r) ==
    /\ call' = [op |-> op, arg |-> arg, ret |-> r, prev |-> Snapshot]
    /\ writer' = Unwritten
    /\ pc' = "idle"
    /\ frame' = NoFrame

\* return of the running public call with result r
Return(r) ==
    /\ pc' = "idle"
    /\ frame' = NoFrame
    /\ call' = [call EXCEPT !.ret = r]

\* cli() followed by the slot writes in queue; cont is where the thread goes
\* after the closing sei(), ret and setErr what it returns there
EnterCritical(queue, cont, ret, setErr) ==
    /\ iflag' = cli
    /\ pc' = "cs"
    /\ frame' = [NoFrame EXCEPT !.queue = queue, !.cont = cont, !.ret = ret,
                                !.setErr = setErr]

\* displayPatterns after the writes of queue, in order
RECURSIVE ApplyWrites(_, _)
ApplyWrites(patterns, queue) ==
    IF queue = <<>> THEN patterns
    ELSE ApplyWrites([patterns EXCEPT ![Head(queue)[1]] = Head(queue)[2]],
                     Tail(queue))

\* the slots the writes of queue touch
WrittenBy(queue) == { queue[k][1] : k \in 1 .. Len(queue) }

\* The body of a critical section: the slot writes, then sei() and what
\* follows it.  While the I bit is clear nothing can run between the writes,
\* and the body is one step; with the I bit set every write is a step of its
\* own, and so is the closing sei().
CriticalSection ==
    /\ pc = "cs"
    /\ LET n == IF ~iflag THEN Len(frame.queue)
                ELSE IF frame.queue = <<>> THEN 0 ELSE 1
           now_q == SubSeq(frame.queue, 1, n)
           rest == SubSeq(frame.queue, n + 1, Len(frame.queue))
           leave == ~iflag \/ frame.queue = <<>>
       IN  /\ displayPatterns' = ApplyWrites(displayPatterns, now_q)
           /\ writer' = [i \in Slots |-> writer[i] \/ i \in WrittenBy(now_q)]
           /\ IF leave
              THEN /\ iflag' = sei
                   /\ IF frame.cont = "idle"
                      THEN /\ Return(frame.ret)
                           /\ lastError' = IF frame.setErr THEN frame.ret
                                           ELSE lastError
                      ELSE /\ pc' = frame.cont
                           /\ frame' = [frame EXCEPT !.queue = <<>>]
                           /\ UNCHANGED << call, lastError >>
              ELSE /\ frame' = [frame EXCEPT !.queue = rest]
                   /\ UNCHANGED << iflag, pc, call, lastError >>
    /\ UNCHANGED << pinVars, driven, scan, isrActive, leadingZeros, currentDigit, blinkVars,
                    ocie, lineVars, clockVars >>

\* ------------------------------------------------------------------------
\* Interrupt context
\* ------------------------------------------------------------------------
\* faulty variant of multiplex(): the blink test comes before the cursor is
\* advanced
multiplexDarkFirst ==
    LET prevDigit == currentDigit
        next == (currentDigit + 1) % NUM_DIGITS
        dark == blinkEnabled /\ ~blinkStateOn
        pattern == displayPatterns[next]
    IN  IF dark
        THEN /\ digLevel' = [digLevel EXCEPT ![prevDigit] = LOW]
             /\ UNCHANGED << currentDigit, driven, scan, segLevel >>
        ELSE /\ currentDigit' = next
             /\ driven' = IF driven = DrivenOff THEN driven
                           ELSE [driven EXCEPT ![next + 1] = pattern]
             /\ scan' = ScanAfter(next, dark)
             /\ digLevel' = [digLevel EXCEPT ![prevDigit] = LOW, ![next] = HIGH]
             /\ segLevel' = [bit \in SegLines |->
                                IF BitAt(pattern, 7 - bit) = 1 THEN HIGH ELSE LOW]

\* faulty variant of multiplex(): segment line bit is driven from bit `bit`
\* of the pattern
multiplexBitOrder ==
    LET prevDigit == currentDigit
        next == (currentDigit + 1) % NUM_DIGITS
        dark == blinkEnabled /\ ~blinkStateOn
        pattern == displayPatterns[next]
    IN  /\ currentDigit' = next
        /\ driven' = IF driven = DrivenOff THEN driven
                      ELSE [driven EXCEPT ![next + 1] =
                                IF dark THEN NOT_DRIVEN ELSE pattern]
        /\ scan' = ScanAfter(next, dark)
        /\ IF dark
           THEN /\ digLevel' = [digLevel EXCEPT ![prevDigit] = LOW]
                /\ segLevel' = segLevel
           ELSE /\ digLevel' = [digLevel EXCEPT ![prevDigit] = LOW, ![next] = HIGH]
                /\ segLevel' = [bit \in SegLines |->
                                   IF BitAt(pattern, bit) = 1 THEN HIGH ELSE LOW]

\* the digitalWrite() calls of multiplex() in program order, for the state
\* the tick is taken in: <<"digit" or "segment", line, level>>
MultiplexWrites ==
    LET prevDigit == currentDigit
        next == (currentDigit + 1) % NUM_DIGITS
        dark == blinkEnabled /\ ~blinkStateOn
        pattern == displayPatterns[next]
    IN  << <<"digit", prevDigit, LOW>> >> \o
        ( IF dark THEN << >>
          ELSE [k \in 1 .. NUM_SEGMENTS |->
                   << "segment", k - 1,
                      IF BitAt(pattern, 7 - (k - 1)) = 1 THEN HIGH ELSE LOW >>]
               \o << <<"digit", next, HIGH>> >> )

\* faulty variant of multiplex(): the old cursor's digit line is left as it is
multiplexKeepsPrevious ==
    LET next == (currentDigit + 1) % NUM_DIGITS
        dark == blinkEnabled /\ ~blinkStateOn
        pattern == displayPatterns[next]
    IN  /\ currentDigit' = next
        /\ driven' = IF driven = DrivenOff THEN driven
                      ELSE [driven EXCEPT ![next + 1] =
                                IF dark THEN NOT_DRIVEN ELSE pattern]
        /\ scan' = ScanAfter(next, dark)
        /\ IF dark
           THEN UNCHANGED << digLevel, segLevel >>
           ELSE /\ digLevel' = [digLevel EXCEPT ![next] = HIGH]
                /\ segLevel' = [bit \in SegLines |->
                                   IF BitAt(pattern, 7 - bit) = 1 THEN HIGH ELSE LOW]

\* faulty variant of multiplex(): in the blink off phase it returns before
\* the old cursor's digit line is turned off
multiplexDarkKeepsDigit ==
    LET prevDigit == currentDigit
        next == (currentDigit + 1) % NUM_DIGITS
        dark == blinkEnabled /\ ~blinkStateOn
        pattern == displayPatterns[next]
    IN  /\ currentDigit' = next
        /\ driven' = IF driven = DrivenOff THEN driven
                      ELSE [driven EXCEPT ![next + 1] =
                                IF dark THEN NOT_DRIVEN ELSE pattern]
        /\ scan' = ScanAfter(next, dark)
        /\ IF dark
           THEN UNCHANGED << digLevel, segLevel >>
           ELSE /\ digLevel' = [digLevel EXCEPT ![prevDigit] = LOW, ![next] = HIGH]
                /\ segLevel' = [bit \in SegLines |->
                                   IF BitAt(pattern, 7 - bit) = 1 THEN HIGH ELSE LOW]

\* faulty variant of multiplex(): the cursor wraps one digit early
multiplexShortCycle ==
    LET prevDigit == currentDigit
        next == (currentDigit + 1) % (NUM_DIGITS - 1)
        dark == blinkEnabled /\ ~blinkStateOn
        pattern == displayPatterns[next]
    IN  /\ currentDigit' = next
        /\ driven' = IF driven = DrivenOff THEN driven
                      ELSE [driven EXCEPT ![next + 1] =
                                IF dark THEN NOT_DRIVEN ELSE pattern]
        /\ scan' = ScanAfter(next, dark)
        /\ IF dark
           THEN /\ digLevel' = [digLevel EXCEPT ![prevDigit] = LOW]
                /\ segLevel' = segLevel
           ELSE /\ digLevel' = [digLevel EXCEPT ![prevDigit] = LOW, ![next] = HIGH]
                /\ segLevel' = [bit \in SegLines |->
                                   IF BitAt(pattern, 7 - bit) = 1 THEN HIGH ELSE LOW]

\* multiplex(): one scan step
multiplex ==
    LET prevDigit == currentDigit
        next == (currentDigit + 1) % NUM_DIGITS
        dark == blinkEnabled /\ ~blinkStateOn
        pattern == displayPatterns[next]
    IN  /\ currentDigit' = next
        /\ driven' = IF driven = DrivenOff THEN driven
                      ELSE [driven EXCEPT ![next + 1] =
                                IF dark THEN NOT_DRIVEN ELSE pattern]
        /\ scan' = ScanAfter(next, dark)
        /\ IF dark
           THEN /\ digLevel' = [digLevel EXCEPT ![prevDigit] = LOW]
                /\ segLevel' = segLevel
           ELSE /\ digLevel' = [digLevel EXCEPT ![prevDigit] = LOW, ![next] = HIGH]
                /\ segLevel' = [bit \in SegLines |->
                                   IF BitAt(pattern, 7 - bit) = 1 THEN HIGH ELSE LOW]

\* ISR(TIMER1_COMPA_vect), taken when the I bit and OCIE1A allow it
Tick ==
    /\ iflag
    /\ ocie
    /\ isrActive
    /\ multiplex
    /\ UNCHANGED << pinVars, isrActive, displayPatterns, leadingZeros, blinkVars,
                    lastError, iflag, ocie, clockVars, pc, frame, call, writer >>

\* the millisecond counter advances (Timer0 overflow interrupt)
AdvanceClock(step) ==
    /\ iflag
    /\ elapsed < MaxElapsed
    /\ now' = Add32(now, step)
    /\ elapsed' = elapsed + 1
    /\ UNCHANGED << pinVars, driven, scan, isrActive, displayPatterns, leadingZeros,
                    currentDigit, blinkVars, lastError, iflag, ocie, lineVars,
                    pc, frame, call, writer >>

\* ------------------------------------------------------------------------
\* Lifecycle
\* ------------------------------------------------------------------------
\* faulty variant of isPinValid(): MAX_PIN itself is rejected
isPinValidStrict(pin) == pin < MAX_PIN

isPinValid(pin) == pin <= MAX_PIN

\* begin(): validation; on success the pin initialisation follows
BeginCall ==
    /\ Idle
    /\ IF segmentPins = NULLPTR \/ digitPins = NULLPTR
       THEN /\ lastError' = NULL_POINTER
            /\ Done("begin", <<>>, NULL_POINTER)
       ELSE IF \/ \E i \in 1 .. NUM_SEGMENTS : ~isPinValid(segmentPins[i])
               \/ \E i \in 1 .. NUM_DIGITS : ~isPinValid(digitPins[i])
       THEN /\ lastError' = INVALID_PIN
            /\ Done("begin", <<>>, INVALID_PIN)
       ELSE /\ Begun("begin", <<>>)
            /\ pc' = "begin_seg"
            /\ frame' = NoFrame
            /\ UNCHANGED lastError
    /\ UNCHANGED << pinVars, driven, scan, isrActive, displayPatterns, leadingZeros,
                    currentDigit, blinkVars, iflag, ocie, lineVars, clockVars >>

\* the Timer1 interrupt is armed: multiplex() can run between two statements
\* that leave the I bit set
TimerArmed == ocie /\ isrActive

\* the lines begin() initialises in one step from line i on, of n lines: one
\* line while multiplex() can interleave, else the rest of the loop
LoopLines(i, n) == IF TimerArmed THEN {i} ELSE i .. (n - 1)

\* begin(): pinMode(pin, OUTPUT); digitalWrite(pin, LOW) over the segment pins
BeginSegmentPin ==
    /\ pc = "begin_seg"
    /\ LET lines == LoopLines(frame.i, NUM_SEGMENTS)
           nexti == frame.i + Cardinality(lines)
       IN  /\ segLevel' = [l \in SegLines |-> IF l \in lines THEN LOW ELSE segLevel[l]]
           /\ IF nexti < NUM_SEGMENTS
              THEN /\ frame' = [frame EXCEPT !.i = nexti]
                   /\ pc' = pc
              ELSE /\ frame' = [frame EXCEPT !.i = 0]
                   /\ pc' = "begin_dig"
    /\ UNCHANGED << pinVars, driven, scan, isrActive, displayPatterns, leadingZeros,
                    currentDigit, blinkVars, lastError, iflag, ocie, digLevel,
                    clockVars, call, writer >>

\* begin(): pinMode(pin, OUTPUT); digitalWrite(pin, LOW) over the digit pins
BeginDigitPin ==
    /\ pc = "begin_dig"
    /\ LET lines == LoopLines(frame.i, NUM_DIGITS)
           nexti == frame.i + Cardinality(lines)
       IN  /\ digLevel' = [l \in Slots |-> IF l \in lines THEN LOW ELSE digLevel[l]]
           /\ IF nexti < NUM_DIGITS
              THEN /\ frame' = [frame EXCEPT !.i = nexti]
                   /\ pc' = pc
              ELSE /\ frame' = [frame EXCEPT !.i = 0]
                   /\ pc' = "begin_timer"
    /\ UNCHANGED << pinVars, driven, scan, isrActive, displayPatterns, leadingZeros,
                    currentDigit, blinkVars, lastError, iflag, ocie, segLevel,
                    clockVars, call, writer >>

\* begin(): cli(); Timer1 setup; OCIE1A set; _isrActive = true; sei(); return OK
BeginTimer ==
    /\ pc = "begin_timer"
    /\ ocie' = TRUE
    /\ isrActive' = TRUE
    /\ iflag' = sei
    /\ lastError' = OK
    /\ Return(OK)
    /\ UNCHANGED << pinVars, driven, scan, displayPatterns, leadingZeros, currentDigit,
                    blinkVars, lineVars, clockVars, writer >>

\* faulty variant of end(): _isrActive is not cleared
EndCallKeepsActive ==
    /\ Idle
    /\ Begun("end", <<>>)
    /\ ocie' = FALSE
    /\ iflag' = sei
    /\ pc' = "end_clear"
    /\ frame' = NoFrame
    /\ UNCHANGED << pinVars, driven, scan, isrActive, displayPatterns, leadingZeros,
                    currentDigit, blinkVars, lastError, lineVars, clockVars >>

\* end(): cli(); _isrActive = false; OCIE1A cleared; sei(); clear() follows
EndCall ==
    /\ Idle
    /\ Begun("end", <<>>)
    /\ isrActive' = FALSE
    /\ ocie' = FALSE
    /\ iflag' = sei
    /\ pc' = "end_clear"
    /\ frame' = NoFrame
    /\ UNCHANGED << pinVars, driven, scan, displayPatterns, leadingZeros, currentDigit,
                    blinkVars, lastError, lineVars, clockVars >>

\* the patterns clear() writes
ClearPatterns == [i \in 1 .. NUM_DIGITS |-> ReadPattern(10)]

\* end(): the call of clear()
EndClear ==
    /\ pc = "end_clear"
    /\ EnterCritical(AllSlots(ClearPatterns), "idle", "void", FALSE)
    /\ UNCHANGED << pinVars, driven, scan, isrActive, displayPatterns, leadingZeros,
                    currentDigit, blinkVars, lastError, ocie, lineVars,
                    clockVars, call, writer >>

\* clear()
ClearCall ==
    /\ Idle
    /\ Begun("clear", <<>>)
    /\ EnterCritical(AllSlots(ClearPatterns), "idle", "void", FALSE)
    /\ UNCHANGED << pinVars, driven, scan, isrActive, displayPatterns, leadingZeros,
                    currentDigit, blinkVars, lastError, ocie, lineVars,
                    clockVars >>

\* ------------------------------------------------------------------------
\* testWiring(delayMs)
\* ------------------------------------------------------------------------
\* entry: returns at once unless _isrActive; else cli(), OCIE1A cleared, all
\* digit lines HIGH
TestWiringCall(delayMs) ==
    /\ Idle
    /\ IF ~isrActive
       THEN /\ Done("testWiring", delayMs, "void")
            /\ UNCHANGED << iflag, ocie, digLevel >>
       ELSE /\ Begun("testWiring", delayMs)
            /\ iflag' = cli
            /\ ocie' = FALSE
            /\ digLevel' = [d \in Slots |-> HIGH]
            /\ pc' = "tw_on"
            /\ frame' = [NoFrame EXCEPT !.ms = delayMs]
    /\ UNCHANGED << pinVars, driven, scan, isrActive, displayPatterns, leadingZeros,
                    currentDigit, blinkVars, lastError, segLevel, clockVars >>

\* segment line s HIGH; sei(); delay(delayMs) starts
TestWiringOn ==
    /\ pc = "tw_on"
    /\ segLevel' = [segLevel EXCEPT ![frame.i] = HIGH]
    /\ iflag' = sei
    /\ pc' = "tw_hold"
    /\ frame' = [frame EXCEPT !.start = now]
    /\ UNCHANGED << pinVars, driven, scan, isrActive, displayPatterns, leadingZeros,
                    currentDigit, blinkVars, lastError, ocie, digLevel,
                    clockVars, call, writer >>

\* delay(delayMs) is over; cli(); segment line s LOW; next segment or the end
TestWiringOff ==
    /\ pc = "tw_hold"
    /\ Geq32(Sub32(now, frame.start), U32(0, frame.ms))
    /\ iflag' = cli
    /\ segLevel' = [segLevel EXCEPT ![frame.i] = LOW]
    /\ IF frame.i + 1 < NUM_SEGMENTS
       THEN /\ frame' = [frame EXCEPT !.i = @ + 1]
            /\ pc' = "tw_on"
       ELSE /\ frame' = frame
            /\ pc' = "tw_off"
    /\ UNCHANGED << pinVars, driven, scan, isrActive, displayPatterns, leadingZeros,
                    currentDigit, blinkVars, lastError, ocie, digLevel,
                    clockVars, call, writer >>

\* all digit lines LOW; OCIE1A set; sei(); return
TestWiringEnd ==
    /\ pc = "tw_off"
    /\ digLevel' = [d \in Slots |-> LOW]
    /\ ocie' = TRUE
    /\ iflag' = sei
    /\ Return("void")
    /\ UNCHANGED << pinVars, driven, scan, isrActive, displayPatterns, leadingZeros,
                    currentDigit, blinkVars, lastError, segLevel, clockVars,
                    writer >>

\* ------------------------------------------------------------------------
\* Renderers
\* ------------------------------------------------------------------------
rendererFrame ==
    << pinVars, driven, scan, isrActive, displayPatterns, leadingZeros, currentDigit,
       blinkVars, ocie, lineVars, clockVars >>

\* setNumber(value, dpPosition)
SetNumberCall(value, dpPosition) ==
    /\ Idle
    /\ Begun("setNumber", <<value, dpPosition>>)
    /\ EnterCritical(AllSlots(NumberPatterns(value, dpPosition, leadingZeros)),
                     "idle", "void", FALSE)
    /\ UNCHANGED << rendererFrame, lastError >>

\* setHundredths(hundredths, dpPosition)
SetHundredthsCall(hundredths, dpPosition) ==
    /\ Idle
    /\ Begun("setHundredths", <<hundredths, dpPosition>>)
    /\ LET args == HundredthsArgs(hundredths, dpPosition)
       IN  EnterCritical(AllSlots(NumberPatterns(args[1], args[2], leadingZeros)),
                         "idle", "void", FALSE)
    /\ UNCHANGED << rendererFrame, lastError >>

\* setText(text)
SetTextCall(text) ==
    /\ Idle
    /\ IF text = NULLPTR
       THEN /\ Done("setText", text, NULL_POINTER)
            /\ UNCHANGED iflag
       ELSE IF TextLen8(text) > NUM_DIGITS
       THEN /\ Done("setText", text, INVALID_ARGUMENT)
            /\ UNCHANGED iflag
       ELSE /\ Begun("setText", text)
            /\ EnterCritical(AllSlots(TextPatterns(text)), "idle", OK, FALSE)
    /\ UNCHANGED << rendererFrame, lastError >>

\* setSegments(patterns)
SetSegmentsCall(patterns) ==
    /\ Idle
    /\ IF patterns = NULLPTR
       THEN /\ Done("setSegments", patterns, "void")
            /\ UNCHANGED iflag
       ELSE /\ Begun("setSegments", patterns)
            /\ EnterCritical(AllSlots(patterns), "idle", "void", FALSE)
    /\ UNCHANGED << rendererFrame, lastError >>

\* setFloat, negative value above -100: <<numToDisplay, dpPosition>> passed to
\* setNumber
NegativeFloatArgs(value) ==
    IF value.m > -10 * FLOAT_UNIT
    THEN {<<n, 1>> : n \in CastU16(RoundScaled(value.m, 2))}
    ELSE {<<n, 2>> : n \in CastU16(RoundScaled(value.m, 1))}

\* numIntDigits of setFloat for the int intPart
NumIntDigits(intPart) ==
    IF intPart >= 1000 THEN 4
    ELSE IF intPart >= 100 THEN 3
    ELSE IF intPart >= 10 THEN 2
    ELSE 1

\* setFloat, value >= 0: <<numToDisplay, dpPosition>> passed to setNumber
PositiveFloatArgs(value) ==
    UNION { LET numIntDigits == NumIntDigits(intPart)
                numDecimals == IF 4 - numIntDigits < 0 THEN 0 ELSE 4 - numIntDigits
                dpPosition == IF numIntDigits - 1 = 3 THEN -1 ELSE numIntDigits - 1
            IN  { << IF n > 9999 THEN 9999 ELSE n, dpPosition >> :
                      n \in CastU16(RoundScaled(value.m, numDecimals)) }
            : intPart \in CastInt16(value.m \div FLOAT_UNIT) }

\* setFloat(value)
SetFloatCall(value) ==
    /\ Idle
    /\ Begun("setFloat", value)
    /\ IF isnan(value) \/ isinf(value)
       THEN EnterCritical(AllSlots(TextPatterns(TXT_Err)), "idle",
                          INVALID_ARGUMENT, TRUE)
       ELSE IF value.m < 0
       THEN IF value.m <= -100 * FLOAT_UNIT
            THEN EnterCritical(AllSlots(TextPatterns(TXT_Minus999)), "idle", OK, TRUE)
            ELSE \E a \in NegativeFloatArgs(value) :
                     EnterCritical(AllSlots(NumberPatterns(a[1], a[2], leadingZeros)),
                                   "sf_minus", OK, TRUE)
       ELSE \E a \in PositiveFloatArgs(value) :
                EnterCritical(AllSlots(NumberPatterns(a[1], a[2], leadingZeros)),
                              "idle", OK, TRUE)
    /\ UNCHANGED << rendererFrame, lastError >>

\* setFloat, negative value: cli(); _displayPatterns[0] = getPattern('-'); sei()
SetFloatMinus ==
    /\ pc = "sf_minus"
    /\ EnterCritical(<< <<0, getPattern(CH_MINUS)>> >>, "idle", OK, TRUE)
    /\ UNCHANGED << rendererFrame, lastError, call, writer >>

\* ------------------------------------------------------------------------
\* Display modes and blinking
\* ------------------------------------------------------------------------
appFrame == << pc, frame, call, writer >>

\* setLeadingZeros(enabled)
SetLeadingZeros(enabled) ==
    /\ Idle
    /\ leadingZeros' = enabled
    /\ UNCHANGED << pinVars, driven, scan, isrActive, displayPatterns, currentDigit, blinkVars,
                    lastError, iflag, ocie, lineVars, clockVars, appFrame >>

\* startBlink(intervalMs)
StartBlink(intervalMs) ==
    /\ Idle
    /\ blinkInterval' = intervalMs
    /\ blinkEnabled' = TRUE
    /\ blinkStateOn' = TRUE
    /\ blinkLastToggle' = now
    /\ UNCHANGED << pinVars, driven, scan, isrActive, displayPatterns, leadingZeros,
                    currentDigit, lastError, iflag, ocie, lineVars, clockVars,
                    appFrame >>

\* faulty variant of stopBlink(): the phase is left as it is
StopBlinkKeepsPhase ==
    /\ Idle
    /\ blinkEnabled' = FALSE
    /\ UNCHANGED << pinVars, driven, scan, isrActive, displayPatterns, leadingZeros,
                    currentDigit, blinkStateOn, blinkInterval, blinkLastToggle,
                    lastError, iflag, ocie, lineVars, clockVars, appFrame >>

\* stopBlink()
StopBlink ==
    /\ Idle
    /\ blinkEnabled' = FALSE
    /\ blinkStateOn' = TRUE
    /\ UNCHANGED << pinVars, driven, scan, isrActive, displayPatterns, leadingZeros,
                    currentDigit, blinkInterval, blinkLastToggle, lastError,
                    iflag, ocie, lineVars, clockVars, appFrame >>

\* faulty variant of refresh(): the interval must be exceeded, not reached
RefreshStrictlyLater ==
    /\ Idle
    /\ IF /\ blinkEnabled
          /\ Geq32(Sub32(now, blinkLastToggle), blinkInterval)
          /\ Sub32(now, blinkLastToggle) # blinkInterval
       THEN /\ blinkStateOn' = ~blinkStateOn
            /\ blinkLastToggle' = now
       ELSE UNCHANGED << blinkStateOn, blinkLastToggle >>
    /\ UNCHANGED << pinVars, driven, scan, isrActive, displayPatterns, leadingZeros,
                    currentDigit, blinkEnabled, blinkInterval, lastError, iflag,
                    ocie, lineVars, clockVars, appFrame >>

\* faulty variant of refresh(): the deadline is computed as
\* _blinkLastToggle + _blinkInterval and compared with now, which goes wrong
\* when the sum or the clock wraps
RefreshDeadline ==
    /\ Idle
    /\ IF blinkEnabled /\ Geq32(now, Add32(blinkLastToggle, blinkInterval))
       THEN /\ blinkStateOn' = ~blinkStateOn
            /\ blinkLastToggle' = now
       ELSE UNCHANGED << blinkStateOn, blinkLastToggle >>
    /\ UNCHANGED << pinVars, driven, scan, isrActive, displayPatterns, leadingZeros,
                    currentDigit, blinkEnabled, blinkInterval, lastError, iflag,
                    ocie, lineVars, clockVars, appFrame >>

\* the millisecond clock read by millis() moves on to the time t; the time
\* that passes between two calls is arbitrary, and the counter wraps at 2^32
ClockReaches(t) ==
    /\ iflag
    /\ t # now
    /\ now' = t
    /\ UNCHANGED << pinVars, driven, scan, isrActive, displayPatterns, leadingZeros,
                    currentDigit, blinkVars, lastError, iflag, ocie, lineVars,
                    pc, frame, call, writer, elapsed >>

\* refresh()
Refresh ==
    /\ Idle
    /\ IF blinkEnabled /\ Geq32(Sub32(now, blinkLastToggle), blinkInterval)
       THEN /\ blinkStateOn' = ~blinkStateOn
            /\ blinkLastToggle' = now
       ELSE UNCHANGED << blinkStateOn, blinkLastToggle >>
    /\ UNCHANGED << pinVars, driven, scan, isrActive, displayPatterns, leadingZeros,
                    currentDigit, blinkEnabled, blinkInterval, lastError, iflag,
                    ocie, lineVars, clockVars, appFrame >>

\* ------------------------------------------------------------------------
\* The driver with its interrupt: every public operation, interleaved with
\* timer ticks and clock advances.  begin() is called while the driver is
\* not active (before the first begin() and after end()).
\* ------------------------------------------------------------------------
\* pin arrays of the example sketches
ExampleSegmentPins == <<2, 3, 4, 5, 6, 7, 8, 9>>
ExampleDigitPins == <<10, 11, 12, 13>>

\* a C string of n characters 'X'
LongText(n) == [i \in 1 .. (n + 1) |-> IF i <= n THEN 88 ELSE 0]

TXT_HI == <<72, 73, 0>>

DelayInputs == { 0, 1 }
IntervalInputs == { U32(0, 1) }
ClockSteps == { U32(0, 1) }

Init == Constructed(ExampleSegmentPins, ExampleDigitPins)

\* the steps that continue a running operation
Steps ==
    \/ BeginSegmentPin
    \/ BeginDigitPin
    \/ BeginTimer
    \/ EndClear
    \/ TestWiringOn
    \/ TestWiringOff
    \/ TestWiringEnd
    \/ CriticalSection

Next ==
    \/ Tick
    \/ \E step \in ClockSteps : AdvanceClock(step)
    \/ (~isrActive /\ BeginCall)
    \/ EndCall
    \/ ClearCall
    \/ \E d \in DelayInputs : TestWiringCall(d)
    \/ SetNumberCall(1234, -1)
    \/ SetTextCall(TXT_HI)
    \/ \E ms \in IntervalInputs : StartBlink(ms)
    \/ StopBlink
    \/ Refresh
    \/ Steps

Spec == Init /\ [][Next]_vars

\* ------------------------------------------------------------------------
\* The renderers under the timer interrupt: begin(), then renderer calls in
\* any order, interleaved with ticks
\* ------------------------------------------------------------------------
NumberInputs == { <<1234, -1>>, <<42, 1>> }
HundredthsInputs == { <<560, 2>> }
FloatInputs == { NaN, Finite(-12500), Finite(5600) }
TextInputs == { NULLPTR, TXT_HI, LongText(7), LongText(MaxTextLen) }
SegmentsInputs == { NULLPTR, <<255, 0, 170, 85>> }

NextRender ==
    \/ Tick
    \/ (~isrActive /\ BeginCall)
    \/ BeginSegmentPin
    \/ BeginDigitPin
    \/ BeginTimer
    \/ ClearCall
    \/ \E a \in NumberInputs : SetNumberCall(a[1], a[2])
    \/ \E a \in HundredthsInputs : SetHundredthsCall(a[1], a[2])
    \/ \E t \in TextInputs : SetTextCall(t)
    \/ \E p \in SegmentsInputs : SetSegmentsCall(p)
    \/ \E v \in FloatInputs : SetFloatCall(v)
    \/ SetFloatMinus
    \/ CriticalSection
    \/ \E b \in BOOLEAN : SetLeadingZeros(b)

SpecRender == Init /\ [][NextRender]_vars

\* ------------------------------------------------------------------------
\* begin() over pin arrays: every array that differs from the example in at
\* most one pin, and the absent array
\* ------------------------------------------------------------------------
PinValues == { 0, MAX_PIN - 1, MAX_PIN, MAX_PIN + 1, 255 }

SegmentPinArrays ==
    { NULLPTR, ExampleSegmentPins } \cup
    { [ExampleSegmentPins EXCEPT ![i] = v] : i \in 1 .. NUM_SEGMENTS, v \in PinValues }

DigitPinArrays ==
    { NULLPTR, ExampleDigitPins } \cup
    { [ExampleDigitPins EXCEPT ![i] = v] : i \in 1 .. NUM_DIGITS, v \in PinValues }

InitBegin ==
    \E segs \in SegmentPinArrays, digs \in DigitPinArrays :
        /\ segs = ExampleSegmentPins \/ digs \in { NULLPTR, ExampleDigitPins }
        /\ Constructed(segs, digs)

NextBegin ==
    \/ Tick
    \/ BeginCall
    \/ BeginSegmentPin
    \/ BeginDigitPin
    \/ BeginTimer
    \/ EndCall
    \/ EndClear
    \/ CriticalSection

SpecBegin == InitBegin /\ [][NextBegin]_vars

\* ------------------------------------------------------------------------
\* One renderer call on the constructed driver, after an optional
\* setLeadingZeros(), over wide argument ranges
\* ------------------------------------------------------------------------
\* nothing has been called yet
Fresh == call.op = "none"

NumberArgs ==
    { <<v, dp>> : v \in 0 .. MaxNumber, dp \in -1 .. 3 } \cup
    { <<v, dp>> : v \in { 0, 7, 1234, MAX_VALUE, MaxNumber, 32768, 65535 },
                  dp \in { -128, -2, 4, 127 } } \cup
    { <<v, dp>> : v \in { 10001, 12345, 19999, 20000, 32767, 32768, 50000,
                           65534, 65535 },
                  dp \in { -128, -2, -1, 0, 1, 2, 3, 4, 127 } }

NextNumber ==
    \/ (Fresh /\ \E b \in BOOLEAN : SetLeadingZeros(b))
    \/ (Fresh /\ \E a \in NumberArgs : SetNumberCall(a[1], a[2]))
    \/ CriticalSection

SpecNumber == Init /\ [][NextNumber]_vars

FloatArgs ==
    { NaN, PosInf, NegInf } \cup
    { Finite(m) : m \in (0 - MaxFineMilli) .. MaxFineMilli } \cup
    { Finite(k * 50) : k \in (0 - MaxCoarse) .. MaxCoarse } \cup
    { Finite(m) : m \in { 999940, 999950, 999960, 1000000, 1234500, 9999400,
                          9999500, 12345000, 32767000, 32768000, 40000000,
                          65535000, 65536000, 70000000, -100000, -100001,
                          -123456, -99999 } }

NextFloat ==
    \/ (Fresh /\ \E b \in BOOLEAN : SetLeadingZeros(b))
    \/ (Fresh /\ \E v \in FloatArgs : SetFloatCall(v))
    \/ SetFloatMinus
    \/ CriticalSection

SpecFloat == Init /\ [][NextFloat]_vars

\* ------------------------------------------------------------------------
\* Renderer calls one after the other on the constructed driver, after an
\* optional setLeadingZeros(); the call before the running one is recorded
\* ------------------------------------------------------------------------
TXT_EMPTY == <<0>>

TwiceNumberInputs == { <<1234, -1>>, <<42, 1>>, <<10000, 4>> }
TwiceHundredthsInputs == { <<560, 2>>, <<12345, 7>> }
TwiceFloatInputs ==
    { NaN, Finite(-12500), Finite(-100500), Finite(5600), Finite(40000000),
      Finite(70000000) }
TwiceTextInputs == { NULLPTR, TXT_EMPTY, TXT_HI, LongText(7) }

InitTwice ==
    /\ ConstructedMembers(ExampleSegmentPins, ExampleDigitPins)
    /\ call = [op |-> "none", arg |-> <<>>, ret |-> "void", prev |-> HistoryOn]
    /\ driven = DrivenOff
    /\ scan = ScanOff

NextTwice ==
    \/ (Fresh /\ \E b \in BOOLEAN : SetLeadingZeros(b))
    \/ \E a \in TwiceNumberInputs : SetNumberCall(a[1], a[2])
    \/ \E a \in TwiceHundredthsInputs : SetHundredthsCall(a[1], a[2])
    \/ \E t \in TwiceTextInputs : SetTextCall(t)
    \/ \E p \in SegmentsInputs : SetSegmentsCall(p)
    \/ \E v \in TwiceFloatInputs : SetFloatCall(v)
    \/ SetFloatMinus
    \/ CriticalSection

SpecTwice == InitTwice /\ [][NextTwice]_vars

\* ------------------------------------------------------------------------
\* One setText() call on the constructed driver: every text of up to 4
\* characters of a small alphabet, every one-character text, every letter
\* in both cases, the absent text and a text of 5 characters
\* ------------------------------------------------------------------------
CHAR_LAST == 255
TextAlphabet == { 72, 105, 57, 45, 46, 126 }

\* the C strings of n characters of TextAlphabet
AlphabetTexts(n) ==
    { [i \in 1 .. (n + 1) |-> IF i <= n THEN t[i] ELSE 0] :
          t \in [1 .. n -> TextAlphabet] }

TextArgs ==
    { NULLPTR, LongText(NUM_DIGITS + 1) } \cup
    UNION { AlphabetTexts(n) : n \in 0 .. NUM_DIGITS } \cup
    { <<c, 0>> : c \in 1 .. CHAR_LAST } \cup
    { <<u, u + 32, 0>> : u \in 65 .. 90 }

NextText ==
    \/ (Fresh /\ \E t \in TextArgs : SetTextCall(t))
    \/ CriticalSection

SpecText == Init /\ [][NextText]_vars

\* ------------------------------------------------------------------------
\* The scan under renderer calls: begin(), then setNumber and setFloat calls
\* interleaved with ticks; the call before the running one and the pattern
\* each tick drives are recorded
\* ------------------------------------------------------------------------
ScanNumberInputs == { <<1234, -1>>, <<5678, 0>> }
ScanFloatInputs == { Finite(-12500) }

InitScan ==
    /\ ConstructedMembers(ExampleSegmentPins, ExampleDigitPins)
    /\ call = [op |-> "none", arg |-> <<>>, ret |-> "void", prev |-> HistoryOn]
    /\ driven = DrivenOn
    /\ scan = ScanOff

NextScan ==
    \/ Tick
    \/ (~isrActive /\ BeginCall)
    \/ BeginSegmentPin
    \/ BeginDigitPin
    \/ BeginTimer
    \/ (isrActive /\ \E a \in ScanNumberInputs : SetNumberCall(a[1], a[2]))
    \/ (isrActive /\ \E v \in ScanFloatInputs : SetFloatCall(v))
    \/ SetFloatMinus
    \/ CriticalSection

SpecScan == InitScan /\ [][NextScan]_vars

\* ---- calls made with interrupts disabled ----

\* the caller disables interrupts before it calls the driver
NoInterrupts ==
    /\ Fresh
    /\ Idle
    /\ iflag
    /\ iflag' = cli
    /\ UNCHANGED << pinVars, driven, scan, isrActive, displayPatterns, leadingZeros,
                    currentDigit, blinkVars, lastError, ocie, lineVars,
                    clockVars, appFrame >>

MaskedNumberInputs == { <<1234, -1>> }
MaskedTextInputs == { TXT_HI, NULLPTR }
MaskedSegmentsInputs == { NULLPTR, <<1, 2, 4, 8>> }
MaskedFloatInputs == { NaN, Finite(-12500), Finite(5600) }

NextMasked ==
    \/ NoInterrupts
    \/ \E a \in MaskedNumberInputs : SetNumberCall(a[1], a[2])
    \/ \E t \in MaskedTextInputs : SetTextCall(t)
    \/ \E p \in MaskedSegmentsInputs : SetSegmentsCall(p)
    \/ \E v \in MaskedFloatInputs : SetFloatCall(v)
    \/ SetFloatMinus
    \/ ClearCall
    \/ EndCall
    \/ EndClear
    \/ CriticalSection

SpecMasked == InitTwice /\ [][NextMasked]_vars

\* ---- blinking across the wrap of the millisecond counter ----

\* times on both sides of the wrap of millis(): 0, 200, 700, 2^32 - 300,
\* 2^32 - 100
WrapTimes ==
    { U32(0, 0), U32(0, 200), U32(0, 700), U32(65535, 65236), U32(65535, 65436) }

WrapIntervals == { U32(0, 500), U32(1, 0) }

NextBlink ==
    \/ Tick
    \/ \E t \in WrapTimes : ClockReaches(t)
    \/ (~isrActive /\ BeginCall)
    \/ BeginSegmentPin
    \/ BeginDigitPin
    \/ BeginTimer
    \/ (isrActive /\ SetNumberCall(1234, -1))
    \/ CriticalSection
    \/ \E ms \in WrapIntervals : StartBlink(ms)
    \/ StopBlink
    \/ Refresh

SpecBlink == Init /\ [][NextBlink]_vars

\* ---- blinking driven by the loop of the sketch ----

\* one step of the clock in the loop specification: a quarter of the range
\* of millis()
QuarterTurn == U32(16384, 0)

\* the intervals of the loop specification: one, two and three quarters
LoopIntervals == { U32(16384, 0), U32(32768, 0), U32(49152, 0) }

\* the clock advances by a quarter of its range
ClockQuarter == ClockReaches(Add32(now, QuarterTurn))

\* a begin() that has started runs to its end
BeginRuns == BeginSegmentPin \/ BeginDigitPin \/ BeginTimer

\* the sketch: begin(), one startBlink, then loop() calling refresh() on
\* every pass while the ISR ticks
NextLoop ==
    \/ Tick
    \/ ClockQuarter
    \/ (~isrActive /\ BeginCall)
    \/ BeginRuns
    \/ (~blinkEnabled /\ \E ms \in LoopIntervals : StartBlink(ms))
    \/ Refresh

\* the clock keeps advancing, a call in progress continues, and loop() keeps
\* calling refresh(): a flip that is due again and again is taken
LoopFairness ==
    /\ WF_vars(ClockQuarter)
    /\ WF_vars(BeginRuns)
    /\ SF_vars(Refresh)

SpecLoop == Init /\ [][NextLoop]_vars /\ LoopFairness

\* ---- the scan cycle: the latest four lit ticks recorded ----

CycleNumberInputs == { <<1234, -1>> }
CycleIntervals == { U32(16384, 0) }

InitCycle ==
    /\ ConstructedMembers(ExampleSegmentPins, ExampleDigitPins)
    /\ call = [op |-> "none", arg |-> <<>>, ret |-> "void", prev |-> HistoryOff]
    /\ driven = DrivenOn
    /\ scan = ScanOn

NextCycle ==
    \/ Tick
    \/ ClockQuarter
    \/ (~isrActive /\ BeginCall)
    \/ BeginRuns
    \/ EndCall
    \/ EndClear
    \/ (isrActive /\ \E a \in CycleNumberInputs : SetNumberCall(a[1], a[2]))
    \/ CriticalSection
    \/ \E ms \in CycleIntervals : StartBlink(ms)
    \/ StopBlink
    \/ Refresh

SpecCycle == InitCycle /\ [][NextCycle]_vars

\* ------------------------------------------------------------------------
\* Properties
\* ------------------------------------------------------------------------
\* the public call in `call` has returned
Returned == call.op # "none" /\ call.ret # "running"

\* slots 0..3 as a tuple
Shown == [i \in 1 .. NUM_DIGITS |-> displayPatterns[i - 1]]

HasDp(p) == p % 2 = 1
Glyph(p) == p - (p % 2)
DigitGlyph(d) == SEGMENT_PATTERNS[d + 1]
GLYPH_MINUS == 2
GLYPH_E == 158
GLYPH_r == 10

\* the decimal digit of v shown at slot i of a 4-digit display
DecimalDigit(v, i) == (v \div (10 ^ (3 - i))) % 10

\* the digit a pattern shows, 10 if it shows none
DecodeDigit(p) ==
    IF \E d \in 0 .. 9 : DigitGlyph(d) = Glyph(p)
    THEN CHOOSE d \in 0 .. 9 : DigitGlyph(d) = Glyph(p)
    ELSE 10

\* C1: whenever a timer tick can be taken, the four slots of DisplayState
\* were all written by the same renderer call (the running or last one), or
\* none of them was: a tick never reads a mix of two calls' outputs.
C1_NoMixedRead ==
    TickEnabled => \A i, j \in Slots : writer[i] = writer[j]

\* a tick can be taken inside setFloat(-12.5), between its two critical
\* sections, with all four slots written by that call
C1_Witness ==
    /\ TickEnabled
    /\ pc = "sf_minus"
    /\ currentDigit # 0
    /\ \A i \in Slots : writer[i]

C3_SetTextRejects ==
    (call.op = "setText" /\ Returned)
    => /\ call.arg = NULLPTR
          => (call.ret = NULL_POINTER /\ writer = Unwritten)
       /\ (call.arg # NULLPTR /\ strlen(call.arg) > 4)
          => (call.ret = INVALID_ARGUMENT /\ writer = Unwritten)

\* C4: with leading zeros shown, setFloat of a negative value of magnitude
\* below 100 leaves the minus glyph in slot 0 and in slots 1..3 the digits of
\* the magnitude rounded to two decimals (below 10, point on slot 1) or to
\* one decimal (from 10 on, point on slot 2).
C4_NegativeFloat ==
    ( /\ call.op = "setFloat"
      /\ Returned
      /\ leadingZeros
      /\ call.arg.kind = "finite"
      /\ call.arg.m < 0
      /\ call.arg.m > -100 * FLOAT_UNIT )
    => LET mag == 0 - call.arg.m
           two == mag < 10 * FLOAT_UNIT
           rounded == IF two THEN RoundDiv(mag, 10) ELSE RoundDiv(mag, 100)
           dpSlot == IF two THEN 1 ELSE 2
       IN  /\ displayPatterns[0] = GLYPH_MINUS
           /\ 100 * DecodeDigit(displayPatterns[1])
                + 10 * DecodeDigit(displayPatterns[2])
                + DecodeDigit(displayPatterns[3]) = rounded
           /\ \A i \in 1 .. 3 : HasDp(displayPatterns[i]) <=> (i = dpSlot)

\* C5: setFloat(5.6) leaves the digits 0,5,6,0 in slots 0..3 (slot 0 blank
\* under leading-zero suppression) with the decimal point on the 1st slot.
C5_FiveSix ==
    (call.op = "setFloat" /\ Returned /\ call.arg = Finite(5600))
    => /\ Glyph(displayPatterns[0]) = IF leadingZeros THEN DigitGlyph(0) ELSE 0
       /\ Glyph(displayPatterns[1]) = DigitGlyph(5)
       /\ Glyph(displayPatterns[2]) = DigitGlyph(6)
       /\ Glyph(displayPatterns[3]) = DigitGlyph(0)
       /\ \A i \in Slots : HasDp(displayPatterns[i]) <=> (i = 0)

\* C6: setFloat of a finite value >= 0 with n integer digits (1 below 10, 2
\* below 100, 3 below 1000, else 4) returns OK and leaves the state of
\* setNumber(min(round(value * 10^(4-n)), 9999), dp), dp = n-1 for n < 4 and
\* no decimal point for n = 4.
C6_PositiveFloat ==
    ( /\ call.op = "setFloat"
      /\ Returned
      /\ call.arg.kind = "finite"
      /\ call.arg.m >= 0 )
    => LET m == call.arg.m
           n == IF m < 10 * FLOAT_UNIT THEN 1
                ELSE IF m < 100 * FLOAT_UNIT THEN 2
                ELSE IF m < 1000 * FLOAT_UNIT THEN 3
                ELSE 4
           scaled == RoundDiv(m, 10 ^ (n - 1))
           num == IF scaled > 9999 THEN 9999 ELSE scaled
           dp == IF n < 4 THEN n - 1 ELSE -1
       IN  /\ call.ret = OK
           /\ Shown = NumberPatterns(num, dp, leadingZeros)

C8_EndBlanks ==
    (call.op = "end" /\ Returned)
    => /\ \A i \in Slots : displayPatterns[i] = 0
       /\ ~ ( /\ \E d \in Slots : digLevel[d] = HIGH
              /\ \E l \in SegLines : segLevel[l] = HIGH )

\* C9: end() can be called whenever no other operation runs; from its call
\* on the driver is not initialised and no tick can run multiplex(); while
\* the driver is not initialised the scan cursor never moves, and only the
\* last step of a successful begin() makes it initialised again.
C9_EndStopsMultiplex ==
    [][ /\ Idle => ENABLED EndCall
        /\ call'.op = "end" => (~isrActive' /\ ~TickEnabled')
        /\ ~isrActive => currentDigit' = currentDigit
        /\ (~isrActive /\ isrActive')
           => (call.op = "begin" /\ call'.ret = OK) ]_vars

\* end() has returned, called while the display was blinking and scanning
C9_Witness ==
    /\ call.op = "end"
    /\ Returned
    /\ blinkEnabled
    /\ ~blinkStateOn
    /\ currentDigit # 0
    /\ ~isrActive

\* C10: begin() returns NULL_POINTER when a pin array is absent, else
\* INVALID_PIN when one of the 12 pins is above 53; then no line was
\* configured or written, OCIE1A is clear, the driver is not initialised and
\* getLastError() is the code returned.  Otherwise it returns OK with
\* OCIE1A set and the driver initialised.
C10_BeginValidates ==
    (call.op = "begin" /\ Returned)
    => LET absent == segmentPins = NULLPTR \/ digitPins = NULLPTR
           above == \/ \E i \in 1 .. Len(segmentPins) : segmentPins[i] > 53
                    \/ \E i \in 1 .. Len(digitPins) : digitPins[i] > 53
           expected == IF absent THEN NULL_POINTER
                       ELSE IF above THEN INVALID_PIN
                       ELSE OK
       IN  /\ call.ret = expected
           /\ lastError = call.ret
           /\ call.ret # OK
              => /\ \A l \in SegLines : segLevel[l] = PIN_UNSET
                 /\ \A d \in Slots : digLevel[d] = PIN_UNSET
                 /\ ~ocie
                 /\ ~isrActive
           /\ call.ret = OK => (ocie /\ isrActive)

\* begin() has returned INVALID_PIN for a digit pin 54
C10_Witness ==
    /\ call.op = "begin"
    /\ Returned
    /\ call.ret = INVALID_PIN
    /\ digitPins # NULLPTR
    /\ digitPins[4] = 54
    /\ ~isrActive

\* C11: after begin, setFloat or setText has returned the code e,
\* getLastError() is e (as long as that call is the last one made).
C11_LastErrorIsResult ==
    (call.op \in { "begin", "setFloat", "setText" } /\ Returned)
    => lastError = call.ret

\* blinking is stopped: not enabled, phase on
BlinkStopped == ~blinkEnabled /\ blinkStateOn

\* C12: stopBlink() leaves blinking disabled with the phase on; that lasts
\* until a startBlink() (refresh() and the clock do not end it); and while it
\* lasts every tick leaves the digit under the cursor HIGH and the segment
\* lines at the bits of that digit's pattern.
C12_StopBlinkNoDarkTick ==
    [][ /\ StopBlink => BlinkStopped'
        /\ (BlinkStopped /\ ~BlinkStopped')
           => \E ms \in IntervalInputs : StartBlink(ms)
        /\ (BlinkStopped /\ Tick)
           => /\ digLevel'[currentDigit'] = HIGH
              /\ \A l \in SegLines :
                     segLevel'[l] = HIGH
                     <=> (displayPatterns[currentDigit'] \div (2 ^ (7 - l))) % 2 = 1
    ]_vars

\* blinking was started and stopped again (the interval is no longer the
\* constructor's, blinking is off), refresh() had toggled the phase, and a
\* tick has lit the digit under the cursor
C12_Witness ==
    /\ blinkInterval # U32(0, 500)
    /\ blinkLastToggle # U32(0, 0)
    /\ BlinkStopped
    /\ isrActive
    /\ currentDigit = 2
    /\ digLevel[2] = HIGH
    /\ displayPatterns[2] # 0

\* C13: setHundredths(h, 2) for h in 0..9999, leading zeros shown, leaves
\* the four decimal digits of h with the decimal point on the slot of the
\* units digit, slot 1 (so that 1234 reads 12.34 and 560 reads 05.60).
C13_HundredthsTwoDecimals ==
    ( /\ call.op = "setHundredths"
      /\ Returned
      /\ leadingZeros
      /\ call.arg[1] \in 0 .. 9999
      /\ call.arg[2] = 2 )
    => \A i \in Slots :
           /\ Glyph(displayPatterns[i]) = DigitGlyph(DecimalDigit(call.arg[1], i))
           /\ HasDp(displayPatterns[i]) <=> (i = 1)

\* C14: after setLeadingZeros(false), the only way _leadingZeros becomes
\* false, setNumber shows leading zeros: setNumber(12, 2) leaves the glyph
\* of 0 in slots 0 and 1 ('001.2').
C14_FalseShowsZeros ==
    ( /\ call.op = "setNumber"
      /\ Returned
      /\ ~leadingZeros
      /\ call.arg = <<12, 2>> )
    => /\ displayPatterns[0] = DigitGlyph(0)
       /\ displayPatterns[1] = DigitGlyph(0)

C16_SetTextPads ==
    ( /\ call.op = "setText"
      /\ Returned
      /\ call.arg # NULLPTR
      /\ strlen(call.arg) <= 4 )
    => /\ call.ret = OK
       /\ \A i \in Slots :
              displayPatterns[i] = IF i < strlen(call.arg)
                                   THEN getPattern(call.arg[i + 1])
                                   ELSE 0

\* setText("Hi") has returned: H, i, blank, blank
C16_Witness ==
    /\ call.op = "setText"
    /\ Returned
    /\ call.arg = <<72, 105, 0>>
    /\ call.ret = OK
    /\ displayPatterns = (0 :> 110 @@ 1 :> 96 @@ 2 :> 0 @@ 3 :> 0)

GLYPH_EQUALS == 192

\* the patterns of the table
TableGlyphs == { SEGMENT_PATTERNS[k] : k \in 1 .. Len(SEGMENT_PATTERNS) }

IsLetter(c) == c \in 65 .. 90 \/ c \in 97 .. 122

\* c with an upper-case letter turned into its lower-case letter
LowerCase(c) == IF c \in 65 .. 90 THEN c + 32 ELSE c

\* the lookup of character c gave pattern p as stated: p is a pattern of the
\* table; a digit gives its glyph, ' ' blank, '-' segment g only, '.' the
\* decimal-point bit only, '=' the pattern equals, and every character that
\* is none of these and no letter gives blank
LookupAsStated(c, p, equals) ==
    /\ p \in TableGlyphs
    /\ c \in 48 .. 57 => p = DigitGlyph(c - 48)
    /\ c = 32 => p = 0
    /\ c = 45 => p = GLYPH_MINUS
    /\ c = 46 => p = 1
    /\ c = 61 => p = equals
    /\ (c \notin 48 .. 57 /\ ~IsLetter(c) /\ c \notin { 32, 45, 46, 61 }) => p = 0

\* the characters setText has looked up and the patterns it got for them, in
\* a state where it has returned OK
Lookups ==
    IF call.op = "setText" /\ Returned /\ call.ret = OK
    THEN { <<call.arg[i + 1], displayPatterns[i]>> :
               i \in { k \in Slots : k < TextLen8(call.arg) } }
    ELSE {}

\* C17 as stated: every lookup gives a pattern of the table, digits, ' ',
\* '-' and '.' give their glyphs, a letter gives the same glyph in both
\* cases, and every other character, '=' among them, gives blank.
C17_LookupOthersBlank ==
    /\ \A l \in Lookups : LookupAsStated(l[1], l[2], 0)
    /\ \A l, m \in Lookups :
           (IsLetter(l[1]) /\ LowerCase(l[1]) = LowerCase(m[1])) => l[2] = m[2]
    /\ getPattern(0) = 0

\* C17 amended: as stated, except that '=' gives the equals glyph,
\* segments a and b (0b11000000), not blank.
C17_LookupTotal ==
    /\ \A l \in Lookups : LookupAsStated(l[1], l[2], GLYPH_EQUALS)
    /\ \A l, m \in Lookups :
           (IsLetter(l[1]) /\ LowerCase(l[1]) = LowerCase(m[1])) => l[2] = m[2]
    /\ getPattern(0) = 0

\* setText("Aa") has returned with the glyph of A in slots 0 and 1
C17_Witness ==
    /\ call.op = "setText"
    /\ Returned
    /\ call.arg = <<65, 97, 0>>
    /\ displayPatterns[0] = 238
    /\ displayPatterns[1] = 238

\* C18: while testWiring holds a segment, all four digit lines are HIGH,
\* the segment line of the loop index is HIGH and every other segment line
\* is LOW.
C18_OneSegmentAtATime ==
    pc = "tw_hold"
    => /\ \A d \in Slots : digLevel[d] = HIGH
       /\ \A l \in SegLines :
              segLevel[l] = IF l = frame.i THEN HIGH ELSE LOW

\* C19: setText("HI") or setFloat(5.6) called while the driver is not
\* initialised (no begin() has succeeded) reports NOT_INITIALIZED, as its
\* return code or as the last error.
C19_NotInitializedReported ==
    ( /\ \/ (call.op = "setText" /\ call.arg = TXT_HI)
         \/ (call.op = "setFloat" /\ call.arg = Finite(5600))
      /\ Returned
      /\ ~isrActive )
    => (call.ret = NOT_INITIALIZED \/ lastError = NOT_INITIALIZED)

\* C20: setNumber(value, dpPosition) with value in 10000..65535, whatever
\* dpPosition, leaves the patterns setNumber(9999, dpPosition) leaves: the
\* glyph of 9 in every slot, with the decimal-point bit on slot dpPosition
\* when that is in 0..3 and on no slot otherwise.
C20_ClampsTo9999 ==
    ( /\ call.op = "setNumber"
      /\ Returned
      /\ call.arg[1] \in 10000 .. 65535 )
    => /\ Shown = NumberPatterns(9999, call.arg[2], leadingZeros)
       /\ \A i \in Slots :
              /\ Glyph(displayPatterns[i]) = DigitGlyph(9)
              /\ HasDp(displayPatterns[i]) <=> (i = call.arg[2])

\* setNumber(12345, 1) has returned, showing 9 9. 9 9
C20_Witness ==
    /\ call.op = "setNumber"
    /\ Returned
    /\ call.arg = <<12345, 1>>
    /\ displayPatterns = (0 :> 246 @@ 1 :> 247 @@ 2 :> 246 @@ 3 :> 246)

\* the patterns the last ticks on slots 0..3 drove, as a DisplayState
DrivenFrame == [i \in Slots |-> driven[i + 1]]

\* the DisplayStates of the scan: blank, those setNumber(1234),
\* setNumber(5678, 0) and setFloat(-12.5) leave, and the one setFloat(-12.5)
\* passes through
ScanDisplayStates ==
    { BlankSlots,
      (0 :> 96 @@ 1 :> 218 @@ 2 :> 242 @@ 3 :> 102),
      (0 :> 183 @@ 1 :> 190 @@ 2 :> 224 @@ 3 :> 254),
      (0 :> 2 @@ 1 :> 96 @@ 2 :> 219 @@ 3 :> 182),
      (0 :> 252 @@ 1 :> 96 @@ 2 :> 219 @@ 3 :> 182) }

\* C21: when the last four ticks have driven slots 0, 1, 2, 3 in turn (the
\* cursor is on slot 3), the four patterns they drove are those of one
\* DisplayState, not a mix of two.
C21_NoMixedFrame ==
    ( /\ currentDigit = 3
      /\ \A i \in Slots : driven[i + 1] # NOT_DRIVEN )
    => DrivenFrame \in ScanDisplayStates

RECURSIVE AfterWrites(_, _, _)
AfterWrites(dig, seg, w) ==
    IF w = << >> THEN <<dig, seg>>
    ELSE LET h == Head(w)
         IN  IF h[1] = "digit"
             THEN AfterWrites([dig EXCEPT ![h[2]] = h[3]], seg, Tail(w))
             ELSE AfterWrites(dig, [seg EXCEPT ![h[2]] = h[3]], Tail(w))

\* the tick is taken in the blink off phase
DarkPhase == blinkEnabled /\ ~blinkStateOn

\* C23: after a tick not taken in the blink off phase, segment line l is
\* HIGH exactly when bit 7-l of the pattern of the new cursor's slot is set
\* (LOW otherwise), the digit line of the new cursor is HIGH and the other
\* three are LOW; the tick's pin writes, in program order, start with the
\* old cursor's digit line going LOW, before any segment line is written,
\* and lead to the levels the tick leaves.
C23_TickDrivesPins ==
    [][ (Tick /\ ~DarkPhase)
        => /\ \A l \in SegLines :
                  segLevel'[l] =
                      IF (displayPatterns[currentDigit'] \div (2 ^ (7 - l))) % 2 = 1
                      THEN HIGH ELSE LOW
           /\ \A d \in Slots :
                  digLevel'[d] = IF d = currentDigit' THEN HIGH ELSE LOW
           /\ MultiplexWrites[1] = <<"digit", currentDigit, LOW>>
           /\ \A k \in 2 .. Len(MultiplexWrites) :
                  MultiplexWrites[k][1] = "segment" \/ k = Len(MultiplexWrites)
           /\ AfterWrites(digLevel, segLevel, MultiplexWrites)
                  = <<digLevel', segLevel'>> ]_vars

\* a tick has lit the 2 of 1234 on slot 1: segments a, b, d, e, g
C23_Witness ==
    /\ isrActive
    /\ ~DarkPhase
    /\ currentDigit = 1
    /\ displayPatterns[1] = 218
    /\ digLevel = (0 :> LOW @@ 1 :> HIGH @@ 2 :> LOW @@ 3 :> LOW)
    /\ segLevel = (0 :> HIGH @@ 1 :> HIGH @@ 2 :> LOW @@ 3 :> HIGH @@
                   4 :> HIGH @@ 5 :> LOW @@ 6 :> HIGH @@ 7 :> LOW)

\* C24: a tick taken while blinking is enabled and the phase is off leaves
\* the old cursor's digit line LOW, the segment lines as they were, and all
\* four digit lines LOW.
C24_DarkTick ==
    [][ (Tick /\ DarkPhase)
        => /\ digLevel'[currentDigit] = LOW
           /\ segLevel' = segLevel
           /\ \A d \in Slots : digLevel'[d] = LOW ]_vars

\* after a dark tick: blink off phase, no digit line HIGH, the segment lines
\* still at the pattern of the digit lit before
C24_Witness ==
    /\ isrActive
    /\ DarkPhase
    /\ currentDigit = 3
    /\ \A d \in Slots : digLevel[d] = LOW
    /\ \E l \in SegLines : segLevel[l] = HIGH

\* C25: with leading-zero suppression in effect (leadingZeros false), after
\* setFloat of a finite value has returned, the slot that carries the
\* decimal point and every slot to its right show a digit, never a blank.
C25_PointZerosKept ==
    ( /\ call.op = "setFloat"
      /\ Returned
      /\ call.arg.kind = "finite"
      /\ ~leadingZeros )
    => \A k \in Slots :
          HasDp(displayPatterns[k])
          => \A j \in k .. (NUM_DIGITS - 1) : DecodeDigit(displayPatterns[j]) # 10

\* C26: while setFloat(-12.5) is between its start and its return and a tick
\* can be taken, DisplayState is either the state before the call or the
\* state after it ('-12.5').
C26_NegativeFloatAtomic ==
    ( /\ call.op = "setFloat"
      /\ call.ret = "running"
      /\ call.arg = Finite(-12500)
      /\ ENABLED Tick )
    => \/ displayPatterns = call.prev.patterns
       \/ displayPatterns = (0 :> GLYPH_MINUS @@ 1 :> DigitGlyph(1)
                             @@ 2 :> DigitGlyph(2) + 1 @@ 3 :> DigitGlyph(5))

\* less-than on 32-bit times, most significant limb first
Before32(a, b) == a[1] < b[1] \/ (a[1] = b[1] /\ a[2] < b[2])

\* the time now lies in the window of length blinkInterval that starts at
\* blinkLastToggle, the window taken modulo 2^32
InsideInterval ==
    LET end == Add32(blinkLastToggle, blinkInterval)
    IN  IF Before32(blinkLastToggle, end)
        THEN ~Before32(now, blinkLastToggle) /\ Before32(now, end)
        ELSE IF end = blinkLastToggle
             THEN FALSE
             ELSE ~Before32(now, blinkLastToggle) \/ Before32(now, end)

TestWiringRunning == pc \in { "tw_on", "tw_hold", "tw_off" }

\* C29: outside a running testWiring, a digit line that is HIGH is the one
\* at the scan cursor, so at most one digit line is HIGH.
C29_OneDigitAtCursor ==
    ~TestWiringRunning
    => \A d \in Slots : digLevel[d] = HIGH => d = currentDigit

\* the scan is running outside testWiring with blinking in its on phase: the
\* digit at cursor 2 is lit, its segments still as driven before the
\* display was cleared
C29_Witness ==
    /\ isrActive
    /\ ~TestWiringRunning
    /\ blinkEnabled
    /\ blinkStateOn
    /\ currentDigit = 2
    /\ digLevel[2] = HIGH
    /\ displayPatterns = BlankSlots
    /\ segLevel # [s \in SegLines |-> LOW]

\* the operations that mask interrupts for a write to DisplayState
MaskingOps == { "setNumber", "setText", "setSegments", "clear", "setFloat", "end" }

\* C30: when an operation that masks interrupts has returned, the
\* interrupt-enable bit is as it was when the operation was called.
C30_RestoresInterruptState ==
    (Returned /\ call.op \in MaskingOps) => iflag = call.prev.iflag

\* C31: when the latest four ticks were taken in a row with the blink phase
\* on, they selected each of the digits 0..3 once; and when all four read
\* the DisplayState that is still current, every slot i was last driven
\* with DisplayState[i].
C31_FourTicksCoverAll ==
    Len(scan) = NUM_DIGITS
    => /\ \A i \in Slots :
             Cardinality({ k \in 1 .. NUM_DIGITS : scan[k][1] = i }) = 1
       /\ (\A k \in 1 .. NUM_DIGITS : scan[k][2] = displayPatterns)
          => \A i \in Slots : driven[i + 1] = displayPatterns[i]

\* four lit ticks in a row since setNumber(1234) returned, blinking in its
\* on phase
C31_Witness ==
    /\ isrActive
    /\ blinkEnabled
    /\ blinkStateOn
    /\ call.op = "setNumber"
    /\ Returned
    /\ Len(scan) = NUM_DIGITS
    /\ \A k \in 1 .. NUM_DIGITS : scan[k][2] = displayPatterns
    /\ displayPatterns # BlankSlots

====
